---------------------------- MODULE Spec2Model ----------------------------
(***************************************************************************)
(* A model of the Medical-Doctor-Assistant repository:                     *)
(*   src/rag_chat.py      the greeting gate and the plan -> retrieve ->    *)
(*                        generate pipeline of generate_answer             *)
(*   src/vector_store.py  build_text_for_embedding and the store_embeddings*)
(*                        batch job                                        *)
(* A Python str is modelled as a sequence of one-character strings, so     *)
(* that lower(), strip(), split(), slicing and the `in` substring test are *)
(* computed the way the code computes them.                                *)
(***************************************************************************)
EXTENDS Integers, Sequences, FiniteSets, TLC

(***************************************************************************)
(* Python str primitives                                                   *)
(***************************************************************************)
LowerLetters == <<"a","b","c","d","e","f","g","h","i","j","k","l","m","n","o","p","q","r","s","t","u","v","w","x","y","z">>

UpperLetters == <<"A","B","C","D","E","F","G","H","I","J","K","L","M","N","O","P","Q","R","S","T","U","V","W","X","Y","Z">>

Digits == {"0", "1", "2", "3", "4", "5", "6", "7", "8", "9"}

Range(s) == {s[i] : i \in 1..Len(s)}

\* str.isspace() of one character
IsSpace(c) == c \in {" ", "\t", "\n", "\r"}

\* str.isalpha() of one character
IsAlpha(c) == c \in Range(LowerLetters) \cup Range(UpperLetters)

\* str.isalnum() of one character
IsAlnum(c) == IsAlpha(c) \/ c \in Digits

ToLower(c) ==
    IF c \in Range(UpperLetters)
    THEN LowerLetters[CHOOSE i \in 1..Len(UpperLetters) : UpperLetters[i] = c]
    ELSE c

ToUpper(c) ==
    IF c \in Range(LowerLetters)
    THEN UpperLetters[CHOOSE i \in 1..Len(LowerLetters) : LowerLetters[i] = c]
    ELSE c

\* str.lower()
Lower(s) == [i \in 1..Len(s) |-> ToLower(s[i])]

\* str.title(): a letter that follows a non-letter is upper-cased, any other
\* letter is lower-cased
Title(s) ==
    [i \in 1..Len(s) |->
        IF i = 1 \/ ~IsAlpha(s[i - 1]) THEN ToUpper(s[i]) ELSE ToLower(s[i])]

\* str.replace(a, b) for single characters a, b
ReplaceChar(s, a, b) == [i \in 1..Len(s) |-> IF s[i] = a THEN b ELSE s[i]]

SetMax(S) == CHOOSE x \in S : \A y \in S : y <= x

RECURSIVE FirstKept(_, _, _)
\* the first position from i on whose character is not in chars
FirstKept(s, chars, i) ==
    IF i > Len(s) \/ s[i] \notin chars THEN i ELSE FirstKept(s, chars, i + 1)

RECURSIVE LastKept(_, _, _)
\* the last position up to i whose character is not in chars
LastKept(s, chars, i) ==
    IF i < 1 \/ s[i] \notin chars THEN i ELSE LastKept(s, chars, i - 1)

\* str.strip(chars): drop the leading and trailing characters that are in chars
StripChars(s, chars) ==
    LET first == FirstKept(s, chars, 1)
        last == LastKept(s, chars, Len(s))
    IN  IF first > last THEN <<>> ELSE SubSeq(s, first, last)

\* str.strip(): drop leading and trailing whitespace
Strip(s) == StripChars(s, {" ", "\t", "\n", "\r"})

\* `sub in s` for two strings
Contains(s, sub) ==
    \E i \in 0..(Len(s) - Len(sub)) : SubSeq(s, i + 1, i + Len(sub)) = sub

RECURSIVE SplitFrom(_, _, _, _)
SplitFrom(s, i, cur, acc) ==
    IF i > Len(s)
    THEN IF cur = <<>> THEN acc ELSE Append(acc, cur)
    ELSE IF IsSpace(s[i])
         THEN SplitFrom(s, i + 1, <<>>, IF cur = <<>> THEN acc ELSE Append(acc, cur))
         ELSE SplitFrom(s, i + 1, Append(cur, s[i]), acc)

\* str.split(): the maximal runs of non-whitespace characters
Split(s) == SplitFrom(s, 1, <<>>, <<>>)

\* ''.join(c for c in s if keep(c))
Filter(s, Keep(_)) == SelectSeq(s, Keep)

RECURSIVE Join(_, _)
\* sep.join(parts)
Join(parts, sep) ==
    IF parts = <<>> THEN <<>>
    ELSE IF Len(parts) = 1 THEN parts[1]
    ELSE parts[1] \o sep \o Join(Tail(parts), sep)

\* s[:n]
Take(s, n) == SubSeq(s, 1, IF Len(s) < n THEN Len(s) ELSE n)

(***************************************************************************)
(* rag_chat.py: the greeting gate                                          *)
(***************************************************************************)
\* "hi", "hello", "hey", "good morning", "good afternoon", "good evening",
\* "greetings", "howdy", "hi there", "hello there"
greetings ==
    << <<"h","i">>,
       <<"h","e","l","l","o">>,
       <<"h","e","y">>,
       <<"g","o","o","d"," ","m","o","r","n","i","n","g">>,
       <<"g","o","o","d"," ","a","f","t","e","r","n","o","o","n">>,
       <<"g","o","o","d"," ","e","v","e","n","i","n","g">>,
       <<"g","r","e","e","t","i","n","g","s">>,
       <<"h","o","w","d","y">>,
       <<"h","i"," ","t","h","e","r","e">>,
       <<"h","e","l","l","o"," ","t","h","e","r","e">> >>

\* ["hi", "hello", "hey"]: the words looked for in a message of at most 3 words
short_greetings == << <<"h","i">>, <<"h","e","l","l","o">>, <<"h","e","y">> >>

\* the longest message, in words, that the word test of is_greeting accepts
MaxGreetingWords == 3

\* text_clean = ''.join(c for c in text_lower if c.isalnum() or c.isspace())
text_clean(text_lower) == Filter(text_lower, LAMBDA c : IsAlnum(c) \/ IsSpace(c))

is_greeting(text) ==
    LET text_lower == Strip(Lower(text))
        words == Split(text_clean(text_lower))
    IN  \/ \E g \in Range(greetings) : Contains(text_lower, g)
        \/ /\ Len(words) <= MaxGreetingWords
           /\ \E g \in Range(short_greetings) : g \in Range(words)

\* "what", "which", "when", "where", "who", "why", "how", "about", "tell",
\* "give", "show", "explain", "describe", "assist", "help", "need", "want",
\* "can you", "could you", "please"
question_words ==
    << <<"w","h","a","t">>,
       <<"w","h","i","c","h">>,
       <<"w","h","e","n">>,
       <<"w","h","e","r","e">>,
       <<"w","h","o">>,
       <<"w","h","y">>,
       <<"h","o","w">>,
       <<"a","b","o","u","t">>,
       <<"t","e","l","l">>,
       <<"g","i","v","e">>,
       <<"s","h","o","w">>,
       <<"e","x","p","l","a","i","n">>,
       <<"d","e","s","c","r","i","b","e">>,
       <<"a","s","s","i","s","t">>,
       <<"h","e","l","p">>,
       <<"n","e","e","d">>,
       <<"w","a","n","t">>,
       <<"c","a","n"," ","y","o","u">>,
       <<"c","o","u","l","d"," ","y","o","u">>,
       <<"p","l","e","a","s","e">> >>

\* a message of at most this many words has no question
MaxBareWords == 2

\* has_question without the `or len(words) > 2` of line 34
has_question_by_keywords(text) ==
    LET text_lower == Strip(Lower(text))
        words == Split(text_lower)
        has_question_mark == "?" \in Range(text)
        has_question_word == \E qw \in Range(question_words) : Contains(text_lower, qw)
    IN  IF Len(words) <= MaxBareWords
        THEN FALSE
        ELSE has_question_mark \/ has_question_word

has_question(text) ==
    LET text_lower == Strip(Lower(text))
        words == Split(text_lower)
        has_question_mark == "?" \in Range(text)
        has_question_word == \E qw \in Range(question_words) : Contains(text_lower, qw)
    IN  IF Len(words) <= MaxBareWords
        THEN FALSE
        ELSE has_question_mark \/ has_question_word \/ Len(words) > MaxBareWords


\* the recorded value of an optional field: <<>> is None / absent, <<v>> is v
None == <<>>

Some(v) == <<v>>

(***************************************************************************)
(* rag_chat.py: the catalog and the canned greeting                        *)
(***************************************************************************)
\* [product.get("product_name", "") for product in products
\*  if product.get("product_name")]; a file that cannot be read or parsed
\* gives []
get_medicine_list(file) ==
    IF ~file.readable
    THEN <<>>
    ELSE LET named == SelectSeq(file.products,
                          LAMBDA p : "product_name" \in DOMAIN p /\ p.product_name # <<>>)
         IN  [i \in 1..Len(named) |-> named[i].product_name]

source_url == <<"h","t","t","p","s",":","/","/","w","w","w",".","w","o","c","k","h","a","r","d","t",".","c","o","m","/","a","b","o","u","t","-","u","s","/","p","r","o","d","u","c","t","s","/","q","u","a","l","i","t","y","-","g","e","n","e","r","i","c","s","/">>

medicine_list_str(file) ==
    LET medicine_list == get_medicine_list(file)
    IN  IF medicine_list # <<>>
        THEN Join(medicine_list, <<","," ">>)
        ELSE <<"N","o"," ","m","e","d","i","c","i","n","e","s"," ","a","v","a","i","l","a","b","l","e">>

\* the f-string of line 54: medicine_list_str is computed and not interpolated
get_greeting_message(file) ==
    LET medicine_list == medicine_list_str(file)
    IN  <<"H","e","l","l","o","!"," ","H","o","w"," ","a","r","e"," ","y","o","u","?"," ","I"," ","a","m"," ","a"," ","P","O","C"," ","p","r","o","t","o","t","y","p","e"," ","b","o","t"," ","a","n","d"," ","f","o","r"," ","t","h","e"," ","b","a","s","i","c"," ","d","e","m","o"," ","p","u","r","p","o","s","e"," ","I"," ","h","a","v","e"," ","t","h","e"," ","m","o","c","k"," ","d","a","t","a"," ","f","r","o","m"," ","t","h","e"," ","s","o","u","r","c","e",":"," ">>
        \o source_url
        \o <<"\n","\n","Y","o","u"," ","m","a","y"," ","a","s","k"," ","m","e"," ","a","n","y"," ","r","e","l","e","v","a","n","t"," ","s","t","u","f","f","s",".">>

\* the two interpolated parts of the system prompt: the greeting message of
\* line 61 (which does interpolate the medicine list) and the retrieved context
create_system_prompt(context, file) ==
    [ greeting_message |->
          <<"H","e","l","l","o","!"," ","H","o","w"," ","a","r","e"," ","y","o","u","?"," ","I"," ","a","m"," ","a"," ","P","O","C"," ","p","r","o","t","o","t","y","p","e"," ","b","o","t"," ","a","n","d"," ","f","o","r"," ","t","h","e"," ","b","a","s","i","c"," ","d","e","m","o"," ","p","u","r","p","o","s","e"," ","I"," ","h","a","v","e"," ","t","h","e"," ","m","o","c","k"," ","d","a","t","a"," ","f","o","r"," ","n","o","w"," ","a","s"," ","f","o","l","l","o","w","s",":"," ">>
          \o medicine_list_str(file)
          \o <<".","\n","\n","W","e"," ","h","a","v","e"," ","t","a","k","e","n"," ","d","a","t","a"," ","f","r","o","m"," ","t","h","e"," ","s","o","u","r","c","e",":"," ">>
          \o source_url
          \o <<"\n","\n","Y","o","u"," ","m","a","y"," ","a","s","k"," ","m","e"," ","a","n","y"," ","r","e","l","e","v","a","n","t"," ","s","t","u","f","f","s",".">>,
      context_text |-> context ]

(***************************************************************************)
(* rag_chat.py: determine_retrieval_query                                  *)
(***************************************************************************)
\* retrieval_query.split(":")[-1]: the text after the last colon
AfterLastColon(s) ==
    LET colons == {i \in 1..Len(s) : s[i] = ":"}
    IN  IF colons = {} THEN s ELSE SubSeq(s, SetMax(colons) + 1, Len(s))

\* len(retrieval_query.split(":"))
ColonParts(s) == Cardinality({i \in 1..Len(s) : s[i] = ":"}) + 1

\* a planned query shorter than this falls back to the user's message
MinQueryLen == 2

\* the clean-up with the colon split of lines 219-221 taken before the quote
\* stripping of line 215
clean_retrieval_query_colon_first(content, user_query) ==
    LET stripped == Strip(content)
        extracted == IF ":" \in Range(stripped) /\ ColonParts(stripped) > 1
                     THEN Strip(AfterLastColon(stripped))
                     ELSE stripped
        unquoted == Strip(StripChars(StripChars(extracted, {"\""}), {"'"}))
    IN  IF unquoted = <<>> \/ Len(unquoted) < MinQueryLen
        THEN user_query
        ELSE unquoted

\* the clean-up without the .strip() that follows split(":")[-1] on line 221
clean_retrieval_query_untrimmed_tail(content, user_query) ==
    LET stripped == Strip(content)
        unquoted == Strip(StripChars(StripChars(stripped, {"\""}), {"'"}))
        extracted == IF ":" \in Range(unquoted) /\ ColonParts(unquoted) > 1
                     THEN AfterLastColon(unquoted)
                     ELSE unquoted
    IN  IF extracted = <<>> \/ Len(extracted) < MinQueryLen
        THEN user_query
        ELSE extracted

\* lines 213-227: the clean-up of the model's text
clean_retrieval_query(content, user_query) ==
    LET stripped == Strip(content)
        unquoted == Strip(StripChars(StripChars(stripped, {"\""}), {"'"}))
        extracted == IF ":" \in Range(unquoted) /\ ColonParts(unquoted) > 1
                     THEN Strip(AfterLastColon(unquoted))
                     ELSE unquoted
    IN  IF extracted = <<>> \/ Len(extracted) < MinQueryLen
        THEN user_query
        ELSE extracted


(***************************************************************************)
(* State                                                                   *)
(***************************************************************************)
VARIABLES
    \* one call of generate_answer(user_query, history)
    user_query,         \* the current user message
    history,            \* the caller's conversation history
    input_json,         \* the catalog file read by get_medicine_list
    pc,                 \* where the call stands
    branch,             \* which copy of the pipeline runs (lines 243-260 or 267-289)
    calls,              \* the external calls issued so far, in order
    retrieval_query,    \* the local of that name
    context_text,       \* the local of that name
    answer,             \* what the call returned
    \* one application of is_greeting / has_question to a message
    text,
    classified,
    \* one application of build_text_for_embedding to a product record
    doc,
    text_blob,
    \* one run of store_embeddings()
    PINECONE_API_KEY,   \* whether the environment sets it
    model_dimension,    \* the length of the vectors the embedding model returns
    remote_index,       \* the index of the configured name in the vector store
    input_file,         \* the catalog file INPUT_JSON names
    st_pc,              \* where the run stands
    embedding_dimension,\* the local of that name
    docs,               \* the local of that name
    vectors_to_upsert,  \* the local of that name
    created,            \* the create_index calls issued so far
    upserts,            \* the batches passed to index.upsert so far, in order
    error,              \* the exception that ended the run
    \* one call of determine_retrieval_query(user_query, history)
    plan_user_query,    \* its user_query
    plan_outcome,       \* what the planning completion does: throws, or its text
    planned             \* what the call returned

chat_vars == <<user_query, history, input_json, pc, branch, calls,
               retrieval_query, context_text, answer>>

gate_vars == <<text, classified>>

text_vars == <<doc, text_blob>>

store_vars == <<PINECONE_API_KEY, model_dimension, remote_index, input_file, st_pc,
                embedding_dimension, docs, vectors_to_upsert, created, upserts, error>>

plan_vars == <<plan_user_query, plan_outcome, planned>>

vars == <<chat_vars, gate_vars, text_vars, store_vars, plan_vars>>

(***************************************************************************)
(* Inputs                                                                  *)
(***************************************************************************)
CIPROTAB == <<"C","I","P","R","O","T","A","B">>

ATORITIC == <<"A","T","O","R","I","T","I","C">>

\* the catalog files a run may find
InputFiles ==
    { [readable |-> FALSE, products |-> <<>>],
      [readable |-> TRUE, products |-> <<>>],
      [readable |-> TRUE, products |-> << [product_name |-> CIPROTAB] >>],
      [readable |-> TRUE,
       products |-> << [product_name |-> CIPROTAB, therapeutic_class |-> <<"A","N","T","I","B","I","O","T","I","C","S">>],
                       [brand_name |-> <<"W","o","c","k","h","a","r","d","t">>],
                       [product_name |-> <<>>],
                       [product_name |-> ATORITIC] >>] }

Hi == <<"h","i">>

HelloAntibiotics == <<"h","e","l","l","o",","," ","t","e","l","l"," ","m","e"," ","a","b","o","u","t"," ","a","n","t","i","b","i","o","t","i","c","s">>

\* the user messages of a chat turn
ChatMessages ==
    { Hi,
      <<"H","i","!">>,
      <<"h","e","l","l","o"," ","t","h","e","r","e">>,
      <<"h","e","y"," ","y","o","u"," ","t","w","o">>,
      HelloAntibiotics,
      <<"h","e","l","l","o","!"," ","w","h","a","t"," ","a","b","o","u","t"," ","c","i","p","r","o","t","a","b","?">>,
      <<"c","i","p","r","t","e","b">>,
      <<"y","e","s">>,
      <<"W","h","a","t"," ","a","b","o","u","t"," ","i","t","?">> }

DidYouMean == <<"D","i","d"," ","y","o","u"," ","m","e","a","n"," ","'","C","I","P","R","O","T","A","B","'","?">>

\* the histories a caller may pass with message m: none, the message alone,
\* one assistant message alone, and a later turn
Histories(m) ==
    { <<>>,
      << [role |-> "user", content |-> m] >>,
      << [role |-> "assistant", content |-> DidYouMean] >>,
      << [role |-> "user", content |-> <<"c","i","p","r","t","e","b">>],
         [role |-> "assistant", content |-> DidYouMean],
         [role |-> "user", content |-> m] >> }

\* the texts the planning completion may return
PlannerResponses ==
    { CIPROTAB,
      <<"T","h","e"," ","q","u","e","r","y"," ","i","s",":"," ","C","I","P","R","O","T","A","B">>,
      <<"\"","a","t","o","r","v","a","s","t","a","t","i","n","\"">>,
      <<"x">>,
      <<>>,
      <<" "," ","'","A","N","T","I","B","I","O","T","I","C","S","'"," ","\n">>,
      <<"q","u","e","r","y",":">>,
      <<"'","\"","C","A","R","D","I","A","C","\"","'">> }

\* the hit lists the retriever may return
RetrievedChunks ==
    { <<>>,
      << [text |-> <<"P","r","o","d","u","c","t"," ","N","a","m","e",":"," ","C","I","P","R","O","T","A","B">>], [text |-> <<"P","r","o","d","u","c","t"," ","N","a","m","e",":"," ","A","T","O","R","I","T","I","C">>] >> }

\* the texts the answering completion may return
GeneratedAnswers ==
    { <<" ","D","i","d"," ","y","o","u"," ","m","e","a","n"," ","'","C","I","P","R","O","T","A","B","'","?"," ">>,
      <<"C","I","P","R","O","T","A","B"," ","i","s"," ","a","n"," ","a","n","t","i","b","i","o","t","i","c",".","\n">> }

(***************************************************************************)
(* rag_chat.py: generate_answer                                            *)
(***************************************************************************)
\* top_k of both retrieve_similar_chunks call sites
TopK == 5

NoQuery == <<>>

PlanCall(ok, returned) ==
    [kind |-> "plan", ok |-> ok, query |-> returned, top_k |-> 0]

RetrieveCall(ok, query, k) ==
    [kind |-> "retrieve", ok |-> ok, query |-> query, top_k |-> k]

GenerateCall(ok) ==
    [kind |-> "generate", ok |-> ok, query |-> NoQuery, top_k |-> 0]

\* is_first_message taken from a history that does not yet hold the message
is_first_message_before_append(h) == Len(h) = 0

\* line 237
is_first_message(h) == Len(h) = 1 /\ h[1].role = "user"

\* the gate with the two branches of `if has_question(user_query)` exchanged
GateDecisionSwapped(q, h) ==
    IF is_first_message(h) /\ is_greeting(q)
    THEN IF has_question(q) THEN "canned" ELSE "greeting_question"
    ELSE "general"

\* lines 239-241 and 262-264: what the gate decides
GateDecision(q, h) ==
    IF is_first_message(h) /\ is_greeting(q)
    THEN IF has_question(q) THEN "greeting_question" ELSE "canned"
    ELSE "general"

\* lines 237-241, 262-264: the gate; a bare first-turn greeting returns here
Gate ==
    /\ pc = "gate"
    /\ LET d == GateDecision(user_query, history)
       IN  IF d = "canned"
           THEN /\ pc' = "returned"
                /\ answer' = Some(get_greeting_message(input_json))
                /\ branch' = d
           ELSE /\ pc' = "plan"
                /\ answer' = answer
                /\ branch' = d
    /\ UNCHANGED <<user_query, history, input_json, calls, retrieval_query,
                   context_text, gate_vars, text_vars, store_vars, plan_vars>>

\* lines 205-227: the planning completion answers with `content`
PlanReturns(content) ==
    LET q == clean_retrieval_query(content, user_query)
    IN  /\ retrieval_query' = q
        /\ calls' = Append(calls, PlanCall(TRUE, q))
        /\ pc' = "retrieve"

\* the planning call without its try/except: the error ends the turn
PlanThrowsUncaught ==
    /\ retrieval_query' = retrieval_query
    /\ calls' = Append(calls, PlanCall(FALSE, NoQuery))
    /\ pc' = "raised"

\* lines 229-231: the planning completion throws
PlanThrows ==
    /\ retrieval_query' = user_query
    /\ calls' = Append(calls, PlanCall(FALSE, user_query))
    /\ pc' = "retrieve"

\* determine_retrieval_query, called at line 243 or 267
Plan ==
    /\ pc = "plan"
    /\ \/ \E content \in PlannerResponses : PlanReturns(content)
       \/ PlanThrows
    /\ UNCHANGED <<user_query, history, input_json, branch, context_text,
                   answer, gate_vars, text_vars, store_vars, plan_vars>>

\* the retriever called with the user's message in place of the planned query
RetrieveReturnsForUserQuery(chunks) ==
    /\ calls' = Append(calls, RetrieveCall(TRUE, user_query, TopK))
    /\ context_text' = Join([i \in 1..Len(chunks) |-> chunks[i].text], <<"\n","\n">>)
    /\ pc' = "generate"

\* lines 244-245 / 271-272: the retriever answers with `chunks`
RetrieveReturns(chunks) ==
    /\ calls' = Append(calls, RetrieveCall(TRUE, retrieval_query, TopK))
    /\ context_text' = Join([i \in 1..Len(chunks) |-> chunks[i].text], <<"\n","\n">>)
    /\ pc' = "generate"

\* a failed retrieval swallowed: the turn goes on with an empty context
RetrieveThrowsSwallowed ==
    /\ calls' = Append(calls, RetrieveCall(FALSE, retrieval_query, TopK))
    /\ context_text' = <<>>
    /\ pc' = "generate"

\* the retriever throws: nothing catches it
RetrieveThrows ==
    /\ calls' = Append(calls, RetrieveCall(FALSE, retrieval_query, TopK))
    /\ context_text' = context_text
    /\ pc' = "raised"

Retrieve ==
    /\ pc = "retrieve"
    /\ \/ \E chunks \in RetrievedChunks : RetrieveReturns(chunks)
       \/ RetrieveThrows
    /\ UNCHANGED <<user_query, history, input_json, branch, retrieval_query,
                   answer, gate_vars, text_vars, store_vars, plan_vars>>

\* lines 248-260 / 276-289: the answering completion answers with `content`
GenerateReturns(content) ==
    /\ calls' = Append(calls, GenerateCall(TRUE))
    /\ answer' = Some(Strip(content))
    /\ pc' = "returned"

\* the answering completion throws: nothing catches it
GenerateThrows ==
    /\ calls' = Append(calls, GenerateCall(FALSE))
    /\ answer' = answer
    /\ pc' = "raised"

Generate ==
    /\ pc = "generate"
    /\ \/ \E content \in GeneratedAnswers : GenerateReturns(content)
       \/ GenerateThrows
    /\ UNCHANGED <<user_query, history, input_json, branch, retrieval_query,
                   context_text, gate_vars, text_vars, store_vars, plan_vars>>


(***************************************************************************)
(* vector_store.py: build_text_for_embedding                               *)
(***************************************************************************)
fields_in_order ==
    << "product_name", "brand_name", "therapeutic_class", "strength",
       "dosage_form", "pack_size", "composition", "indication_summary",
       "extracted_text" >>

\* the characters of each key
KeyText ==
    [ product_name |-> <<"p","r","o","d","u","c","t","_","n","a","m","e">>,
      brand_name |-> <<"b","r","a","n","d","_","n","a","m","e">>,
      therapeutic_class |-> <<"t","h","e","r","a","p","e","u","t","i","c","_","c","l","a","s","s">>,
      strength |-> <<"s","t","r","e","n","g","t","h">>,
      dosage_form |-> <<"d","o","s","a","g","e","_","f","o","r","m">>,
      pack_size |-> <<"p","a","c","k","_","s","i","z","e">>,
      composition |-> <<"c","o","m","p","o","s","i","t","i","o","n">>,
      indication_summary |-> <<"i","n","d","i","c","a","t","i","o","n","_","s","u","m","m","a","r","y">>,
      extracted_text |-> <<"e","x","t","r","a","c","t","e","d","_","t","e","x","t">> ]

\* the size the text blob is cut to
MaxTextLen == 6000

\* `if k in doc:` in place of `if v:`
TruthyIfPresent(d, k) == k \in DOMAIN d

\* `if v:` for v = d.get(k): the key is there and its string is not empty
Truthy(d, k) == k \in DOMAIN d /\ d[k] # <<>>

\* f"{k.replace('_',' ').title()}: {v}"
FieldLine(k, v) == Title(ReplaceChar(KeyText[k], "_", " ")) \o <<":"," ">> \o v

RECURSIVE CollectParts(_, _, _)
\* the loop of lines 31-35, from the i-th field on
CollectParts(d, i, parts) ==
    IF i > Len(fields_in_order)
    THEN parts
    ELSE LET k == fields_in_order[i]
         IN  CollectParts(d, i + 1,
                 IF Truthy(d, k) THEN Append(parts, FieldLine(k, d[k])) ELSE parts)

\* d.get(k, default)
GetOr(d, k, default) == IF k \in DOMAIN d THEN d[k] ELSE default

build_text_for_embedding(d) ==
    LET collected == CollectParts(d, 1, <<>>)
        parts == IF collected = <<>> THEN << GetOr(d, "id", <<>>) >> ELSE collected
        blob == Strip(Join(parts, <<"\n">>))
    IN  Take(blob, MaxTextLen)

(***************************************************************************)
(* vector_store.py: store_embeddings                                       *)
(***************************************************************************)
\* what the embedding API returns for a text: a vector of the model's length
\* that depends on the text only (line 45-46: an empty text is sent as " ")
create_embedding(t, dimension) ==
    [dimension |-> dimension, input |-> IF t = <<>> THEN <<" ">> ELSE t]

RECURSIVE Decimal(_)
\* str(n) for n >= 0
Decimal(n) ==
    LET digit == << "0", "1", "2", "3", "4", "5", "6", "7", "8", "9" >>
    IN  IF n < 10 THEN << digit[n + 1] >> ELSE Append(Decimal(n \div 10), digit[(n % 10) + 1])

\* a or b for two strings
OrElse(a, b) == IF a # <<>> THEN a ELSE b

\* lines 142-160: the vector entry of the record at 0-based position i
VectorEntry(d, i, dimension) ==
    LET uid == GetOr(d, "id", <<"v","e","c","_">> \o Decimal(i))
        title == OrElse(GetOr(d, "product_name", <<>>),
                        OrElse(GetOr(d, "brand_name", <<>>), uid))
        source_id == GetOr(d, "source_url", <<>>)
        t == build_text_for_embedding(d)
    IN  [ id |-> uid,
          values |-> create_embedding(t, dimension),
          metadata |-> [title |-> title, source_id |-> source_id,
                        chunk_index |-> 0, text |-> t] ]

\* batch_size of line 163
batch_size == 100

\* the slice one entry short: vectors_to_upsert[i:i + batch_size - 1]
BatchOneShort(vectors, i) ==
    SubSeq(vectors, i + 1,
           IF i + batch_size - 1 < Len(vectors) THEN i + batch_size - 1 ELSE Len(vectors))

\* vectors_to_upsert[i:i + batch_size] for a 0-based i
Batch(vectors, i) ==
    SubSeq(vectors, i + 1, IF i + batch_size < Len(vectors) THEN i + batch_size ELSE Len(vectors))

\* lines 78-79
CheckKey ==
    /\ st_pc = "start"
    /\ IF ~PINECONE_API_KEY
       THEN st_pc' = "raised" /\ error' = "PINECONE_API_KEY not found"
       ELSE st_pc' = "sample" /\ error' = error
    /\ UNCHANGED <<PINECONE_API_KEY, model_dimension, remote_index, input_file,
                   embedding_dimension, docs, vectors_to_upsert, created, upserts,
                   chat_vars, gate_vars, text_vars, plan_vars>>

\* lines 86-87: the sentinel embedding; the embedding API may throw
SampleEmbedding ==
    /\ st_pc = "sample"
    /\ \/ /\ embedding_dimension' = create_embedding(<<"s","a","m","p","l","e">>, model_dimension).dimension
          /\ st_pc' = "index"
          /\ error' = error
       \/ /\ embedding_dimension' = embedding_dimension
          /\ st_pc' = "raised"
          /\ error' = "embedding API error"
    /\ UNCHANGED <<PINECONE_API_KEY, model_dimension, remote_index, input_file,
                   docs, vectors_to_upsert, created, upserts,
                   chat_vars, gate_vars, text_vars, plan_vars>>

\* the index step without the dimension check of lines 112-124
EnsureIndexUnchecked ==
    /\ st_pc = "index"
    /\ IF ~remote_index.exists
       THEN /\ created' = Append(created, embedding_dimension)
            /\ remote_index' = [exists |-> TRUE, dimension |-> embedding_dimension]
       ELSE /\ created' = created
            /\ remote_index' = remote_index
    /\ st_pc' = "load"
    /\ error' = error
    /\ UNCHANGED <<PINECONE_API_KEY, model_dimension, input_file,
                   embedding_dimension, docs, vectors_to_upsert, upserts,
                   chat_vars, gate_vars, text_vars, plan_vars>>

\* the index step with create_index issued whether or not the index is there,
\* and the dimension of the index that was there checked after it
EnsureIndexCreateFirst ==
    /\ st_pc = "index"
    /\ created' = Append(created, embedding_dimension)
    /\ IF ~remote_index.exists
       THEN /\ remote_index' = [exists |-> TRUE, dimension |-> embedding_dimension]
            /\ st_pc' = "load"
            /\ error' = error
       ELSE /\ remote_index' = remote_index
            /\ IF remote_index.dimension # embedding_dimension
               THEN st_pc' = "raised" /\ error' = "Dimension mismatch"
               ELSE st_pc' = "load" /\ error' = error
    /\ UNCHANGED <<PINECONE_API_KEY, model_dimension, input_file,
                   embedding_dimension, docs, vectors_to_upsert, upserts,
                   chat_vars, gate_vars, text_vars, plan_vars>>

\* lines 91-126: create the index, or check the dimension of the one there
EnsureIndex ==
    /\ st_pc = "index"
    /\ IF ~remote_index.exists
       THEN /\ created' = Append(created, embedding_dimension)
            /\ remote_index' = [exists |-> TRUE, dimension |-> embedding_dimension]
            /\ st_pc' = "load"
            /\ error' = error
       ELSE /\ created' = created
            /\ remote_index' = remote_index
            /\ IF remote_index.dimension # embedding_dimension
               THEN st_pc' = "raised" /\ error' = "Dimension mismatch"
               ELSE st_pc' = "load" /\ error' = error
    /\ UNCHANGED <<PINECONE_API_KEY, model_dimension, input_file,
                   embedding_dimension, docs, vectors_to_upsert, upserts,
                   chat_vars, gate_vars, text_vars, plan_vars>>

\* lines 129-136: connect to the index and load the catalog
LoadJson ==
    /\ st_pc = "load"
    /\ IF ~input_file.exists
       THEN st_pc' = "raised" /\ error' = "Input JSON not found" /\ docs' = docs
       ELSE st_pc' = "embed" /\ error' = error /\ docs' = input_file.docs
    /\ UNCHANGED <<PINECONE_API_KEY, model_dimension, remote_index, input_file,
                   embedding_dimension, vectors_to_upsert, created, upserts,
                   chat_vars, gate_vars, text_vars, plan_vars>>

\* lines 141-160: one turn of the loop over docs; the embedding API may throw
EmbedDoc ==
    /\ st_pc = "embed"
    /\ LET i == Len(vectors_to_upsert)
       IN  IF i < Len(docs)
           THEN \/ /\ vectors_to_upsert' =
                        Append(vectors_to_upsert, VectorEntry(docs[i + 1], i, model_dimension))
                   /\ st_pc' = st_pc
                   /\ error' = error
                \/ /\ vectors_to_upsert' = vectors_to_upsert
                   /\ st_pc' = "raised"
                   /\ error' = "embedding API error"
           ELSE /\ vectors_to_upsert' = vectors_to_upsert
                /\ st_pc' = "upsert"
                /\ error' = error
    /\ UNCHANGED <<PINECONE_API_KEY, model_dimension, remote_index, input_file,
                   embedding_dimension, docs, created, upserts,
                   chat_vars, gate_vars, text_vars, plan_vars>>

\* the 0-based start of the next batch: range(0, len, batch_size) after
\* Len(upserts) turns
NextBatchStart == Len(upserts) * batch_size

\* lines 164-167: one turn of the loop over batches; the upsert may throw
UpsertBatch ==
    /\ st_pc = "upsert"
    /\ IF NextBatchStart < Len(vectors_to_upsert)
       THEN \/ /\ upserts' = Append(upserts, Batch(vectors_to_upsert, NextBatchStart))
               /\ st_pc' = st_pc
               /\ error' = error
            \/ /\ upserts' = upserts
               /\ st_pc' = "raised"
               /\ error' = "vector store API error"
       ELSE /\ upserts' = upserts
            /\ st_pc' = "done"
            /\ error' = error
    /\ UNCHANGED <<PINECONE_API_KEY, model_dimension, remote_index, input_file,
                   embedding_dimension, docs, vectors_to_upsert, created,
                   chat_vars, gate_vars, text_vars, plan_vars>>

(***************************************************************************)
(* The pure functions, applied to one input                                *)
(***************************************************************************)
\* text -> is_greeting(text)
ApplyIsGreeting ==
    /\ classified.greeting = None
    /\ classified' = [classified EXCEPT !.greeting = Some(is_greeting(text))]
    /\ UNCHANGED <<text, chat_vars, text_vars, store_vars, plan_vars>>

\* text -> has_question(text)
ApplyHasQuestion ==
    /\ classified.question = None
    /\ classified' = [classified EXCEPT !.question = Some(has_question(text))]
    /\ UNCHANGED <<text, chat_vars, text_vars, store_vars, plan_vars>>

\* doc -> build_text_for_embedding(doc)
ApplyBuildText ==
    /\ text_blob = None
    /\ text_blob' = Some(build_text_for_embedding(doc))
    /\ UNCHANGED <<doc, chat_vars, gate_vars, store_vars, plan_vars>>

\* determine_retrieval_query as a whole: lines 205-227 when the completion
\* answers, lines 229-231 when it throws
DetermineRetrievalQuery ==
    /\ planned = None
    /\ planned' = Some(IF plan_outcome.throws
                       THEN plan_user_query
                       ELSE clean_retrieval_query(plan_outcome.content, plan_user_query))
    /\ UNCHANGED <<plan_user_query, plan_outcome, chat_vars, gate_vars, text_vars,
                   store_vars>>

(***************************************************************************)
(* Specifications                                                          *)
(***************************************************************************)
ChatIdle ==
    /\ user_query = <<>>
    /\ history = <<>>
    /\ input_json = [readable |-> FALSE, products |-> <<>>]
    /\ pc = "idle"
    /\ branch = "none"
    /\ calls = <<>>
    /\ retrieval_query = NoQuery
    /\ context_text = <<>>
    /\ answer = None

GateIdle == text = <<>> /\ classified = [greeting |-> None, question |-> None]

TextIdle == doc = <<>> /\ text_blob = None

PlanIdle ==
    /\ plan_user_query = <<>>
    /\ plan_outcome = [throws |-> FALSE, content |-> <<>>]
    /\ planned = None

StoreIdle ==
    /\ PINECONE_API_KEY = FALSE
    /\ model_dimension = 0
    /\ remote_index = [exists |-> FALSE, dimension |-> 0]
    /\ input_file = [exists |-> FALSE, docs |-> <<>>]
    /\ st_pc = "idle"
    /\ embedding_dimension = 0
    /\ docs = <<>>
    /\ vectors_to_upsert = <<>>
    /\ created = <<>>
    /\ upserts = <<>>
    /\ error = "none"

Init ==
    /\ user_query \in ChatMessages
    /\ history \in Histories(user_query)
    /\ input_json \in InputFiles
    /\ pc = "gate"
    /\ branch = "none"
    /\ calls = <<>>
    /\ retrieval_query = NoQuery
    /\ context_text = <<>>
    /\ answer = None
    /\ GateIdle
    /\ TextIdle
    /\ StoreIdle
    /\ PlanIdle

Next == Gate \/ Plan \/ Retrieve \/ Generate

\* one call of generate_answer
Spec == Init /\ [][Next]_vars

\* the most records of a catalog
MaxDocs == 201

\* the embedding lengths of text-embedding-3-small and text-embedding-3-large
Dimensions == {1536, 3072}

\* the records a catalog is made of: with an id, without one, and empty
StoreDocPool ==
    << [id |-> <<"p","1">>, product_name |-> <<"A">>, source_url |-> <<"u">>],
       [brand_name |-> <<"B">>],
       [id |-> <<"p","3">>] >>

CatalogOf(n) == [i \in 1..n |-> StoreDocPool[((i - 1) % Len(StoreDocPool)) + 1]]

InitStore ==
    /\ PINECONE_API_KEY \in BOOLEAN
    /\ model_dimension \in Dimensions
    /\ remote_index \in {[exists |-> FALSE, dimension |-> 0]}
                        \cup {[exists |-> TRUE, dimension |-> d] : d \in Dimensions}
    /\ input_file \in {[exists |-> FALSE, docs |-> <<>>]}
                      \cup {[exists |-> TRUE, docs |-> CatalogOf(n)] : n \in 0..MaxDocs}
    /\ st_pc = "start"
    /\ embedding_dimension = 0
    /\ docs = <<>>
    /\ vectors_to_upsert = <<>>
    /\ created = <<>>
    /\ upserts = <<>>
    /\ error = "none"
    /\ ChatIdle
    /\ GateIdle
    /\ TextIdle
    /\ PlanIdle

NextStore == CheckKey \/ SampleEmbedding \/ EnsureIndex \/ LoadJson \/ EmbedDoc \/ UpsertBatch

\* one run of store_embeddings
SpecStore == InitStore /\ [][NextStore]_vars

\* the most words of a classified message
MaxWords == 4

\* the words the classified messages are made of
Words ==
    { <<"h","i">>, <<"h",".","i">>, <<"H","e","y","!">>, <<"t","h","i","s">>, <<"g","o","o","d">>, <<"m","o","r","n","i","n","g">>, <<"w","h","a","t","?">> }

\* every message of at most MaxWords of these words, separated by one space
Messages ==
    { Join(ws, <<" ">>) : ws \in UNION {[1..n -> Words] : n \in 0..MaxWords} }

InitGate ==
    /\ text \in Messages
    /\ classified = [greeting |-> None, question |-> None]
    /\ ChatIdle
    /\ TextIdle
    /\ StoreIdle
    /\ PlanIdle

NextGate == ApplyIsGreeting \/ ApplyHasQuestion

\* is_greeting and has_question on every message
SpecGate == InitGate /\ [][NextGate]_vars

Repeat(c, n) == [i \in 1..n |-> c]

\* how far below and above MaxTextLen the long values reach
Slack == 40

\* a short value of each field
ShortValue ==
    [ product_name |-> <<"C","I","P","R","O","T","A","B">>,
      brand_name |-> <<"W","o","c","k","h","a","r","d","t">>,
      therapeutic_class |-> <<"A","N","T","I","B","I","O","T","I","C","S">>,
      strength |-> <<"5","0","0"," ","m","g">>,
      dosage_form |-> <<"T","a","b","l","e","t">>,
      pack_size |-> <<"1","0">>,
      composition |-> <<"C","i","p","r","o","f","l","o","x","a","c","i","n">>,
      indication_summary |-> <<"I","n","f","e","c","t","i","o","n","s">>,
      extracted_text |-> <<"C","i","p","r","o","t","a","b"," ","t","a","b","l","e","t","s",".">> ]

AllowListed == Range(fields_in_order)

\* records with any set of the listed fields, with and without an id
ShortDocs ==
    { [k \in S |-> ShortValue[k]] : S \in SUBSET AllowListed }
    \cup { [k \in S \cup {"id"} |-> IF k = "id" THEN <<"p","1">> ELSE ShortValue[k]] :
             S \in SUBSET {"product_name", "composition", "extracted_text"} }

\* records with a field that is there and empty
EmptyValueDocs ==
    { [product_name |-> <<>>, brand_name |-> <<"W","o","c","k","h","a","r","d","t">>],
      [product_name |-> <<"C","I","P","R","O","T","A","B">>, strength |-> <<>>, extracted_text |-> <<>>],
      [id |-> <<"p","2">>, product_name |-> <<>>],
      [product_name |-> <<"C","I","P","R","O","T","A","B">>, extracted_text |-> <<"C","i","p","r","o","t","a","b"," ","t","a","b","l","e","t","s","."," ","\n">>] }

\* records whose text is about MaxTextLen characters long
LongDocs ==
    { [product_name |-> <<"A">>, extracted_text |-> Repeat("x", n)] :
        n \in (MaxTextLen - Slack)..(MaxTextLen + Slack) }
    \cup { [composition |-> Repeat("x", n), extracted_text |-> <<"t","a","i","l">>] :
        n \in (MaxTextLen - Slack)..(MaxTextLen + Slack) }

TextDocs == ShortDocs \cup EmptyValueDocs \cup LongDocs

InitText ==
    /\ doc \in TextDocs
    /\ text_blob = None
    /\ ChatIdle
    /\ GateIdle
    /\ StoreIdle
    /\ PlanIdle

NextText == ApplyBuildText

\* build_text_for_embedding on every record
SpecText == InitText /\ [][NextText]_vars

\* the most pieces of a generated completion text
MaxPieces == 5

\* what the generated completion texts are made of: the two quote characters,
\* a space, a colon, a one-letter and a two-letter word
Pieces == { <<"\"">>, <<"'">>, <<" ">>, <<":">>, <<"q">>, <<"a", "b">> }

\* every text of at most MaxPieces of these pieces
PieceResponses ==
    { Join(ps, <<>>) : ps \in UNION {[1..n -> Pieces] : n \in 0..MaxPieces} }

\* the user messages of a planning call
PlanUserQueries == { <<"c","i","p","r","t","e","b">>, <<"a","b">> }

InitPlan ==
    /\ plan_user_query \in PlanUserQueries
    /\ plan_outcome \in
          {[throws |-> TRUE, content |-> <<>>]}
          \cup {[throws |-> FALSE, content |-> c] : c \in PlannerResponses \cup PieceResponses}
    /\ planned = None
    /\ ChatIdle
    /\ GateIdle
    /\ TextIdle
    /\ StoreIdle

NextPlan == DetermineRetrievalQuery

\* determine_retrieval_query on every completion text
SpecPlan == InitPlan /\ [][NextPlan]_vars

(***************************************************************************)
(* Properties of generate_answer (checked under Spec)                      *)
(***************************************************************************)
\* the history holds only the current user message, with role "user"
FirstTurn ==
    /\ Len(history) = 1
    /\ history[1].role = "user"
    /\ history[1].content = user_query

BareFirstTurnGreeting ==
    FirstTurn /\ is_greeting(user_query) /\ ~has_question(user_query)

Kinds(cs) == [i \in 1..Len(cs) |-> cs[i].kind]

AllOk(cs) == \A i \in 1..Len(cs) : cs[i].ok

Pipeline == << "plan", "retrieve", "generate" >>

\* C1: on a first turn whose message is a greeting without a question,
\* generate_answer returns the canned greeting message, and the planner, the
\* retriever and the generator are each called zero times.
C1_BareGreetingIsCannedWithoutCalls ==
    (pc # "gate" /\ BareFirstTurnGreeting) =>
        /\ pc = "returned"
        /\ answer = Some(get_greeting_message(input_json))
        /\ Contains(answer[1], source_url)
        /\ calls = <<>>

C1_Witness ==
    /\ pc = "returned"
    /\ BareFirstTurnGreeting
    /\ user_query = <<"h","e","l","l","o"," ","t","h","e","r","e">>
    /\ calls = <<>>

\* C2, as stated: "hi" with an empty history returns the canned message and
\* issues no network call.
C2_HiWithEmptyHistoryIsCanned ==
    (user_query = Hi /\ history = <<>>) =>
        /\ calls = <<>>
        /\ pc = "returned" => answer = Some(get_greeting_message(input_json))

\* C2, amended: "hi" with a history that holds only that message, with role
\* "user", returns the canned greeting message and issues no network call.
C2_HiAloneInHistoryIsCanned ==
    (pc # "gate" /\ user_query = Hi /\ history = << [role |-> "user", content |-> Hi] >>) =>
        /\ pc = "returned"
        /\ answer = Some(get_greeting_message(input_json))
        /\ calls = <<>>

C2_Witness ==
    /\ pc = "returned"
    /\ user_query = Hi
    /\ history = << [role |-> "user", content |-> Hi] >>
    /\ answer # None
    /\ calls = <<>>

\* C3: the canned message returned for a bare first-turn greeting contains the
\* source URL and every non-empty product_name of the loaded catalog.
C3_CannedMessageListsCatalog ==
    (pc = "returned" /\ branch = "canned") =>
        /\ Contains(answer[1], source_url)
        /\ input_json.readable =>
              \A i \in 1..Len(input_json.products) :
                  LET p == input_json.products[i]
                  IN  ("product_name" \in DOMAIN p /\ p.product_name # <<>>) =>
                          Contains(answer[1], p.product_name)

\* C4: a turn that is not a bare first-turn greeting, and in which no call
\* fails, issues the planning call, then the retrieval call with the planner's
\* returned query and k = 5, then the generation call: three calls when it
\* returns, none repeated, none out of this order.
C4_PipelineIsPlanRetrieveGenerate ==
    (pc \notin {"idle", "gate"} /\ ~BareFirstTurnGreeting /\ AllOk(calls)) =>
        /\ Len(calls) <= 3
        /\ Kinds(calls) = SubSeq(Pipeline, 1, Len(calls))
        /\ pc = "plan" => Len(calls) = 0
        /\ pc = "retrieve" => Len(calls) = 1
        /\ pc = "generate" => Len(calls) = 2
        /\ pc = "returned" => Len(calls) = 3
        /\ pc # "raised"
        /\ Len(calls) >= 2 => calls[2].query = calls[1].query /\ calls[2].top_k = 5

C4_Witness ==
    /\ pc = "returned"
    /\ FirstTurn
    /\ user_query = HelloAntibiotics
    /\ Kinds(calls) = Pipeline
    /\ AllOk(calls)
    /\ calls[2].query = CIPROTAB

PlanFailed == Len(calls) >= 1 /\ calls[1].kind = "plan" /\ ~calls[1].ok

\* C5: when the planning call throws, determine_retrieval_query returns the
\* user's message unchanged and does not raise: the turn goes on to the
\* retrieval call, with that message as its query, and to the generation call.
C5_PlannerFailureFallsBack ==
    PlanFailed =>
        /\ calls[1].query = user_query
        /\ retrieval_query = user_query
        /\ Len(calls) = 1 => pc = "retrieve"
        /\ Len(calls) >= 2 => calls[2].kind = "retrieve" /\ calls[2].query = user_query
        /\ (Len(calls) = 2 /\ calls[2].ok) => pc = "generate"
        /\ Len(calls) = 3 => calls[3].kind = "generate"
        /\ pc = "raised" => Len(calls) >= 2 /\ ~calls[Len(calls)].ok

C5_Witness ==
    /\ PlanFailed
    /\ pc = "returned"
    /\ Kinds(calls) = Pipeline
    /\ calls[2].query = user_query
    /\ answer # None

\* C6: a failed retrieval or generation call ends the turn with the error: it
\* is the last call of the turn and the only one of its kind, nothing is
\* returned, and no generation call follows a failed retrieval.
C6_RetrievalAndGenerationFailuresPropagate ==
    \A i \in 1..Len(calls) :
        (calls[i].kind \in {"retrieve", "generate"} /\ ~calls[i].ok) =>
            /\ i = Len(calls)
            /\ pc = "raised"
            /\ answer = None
            /\ Cardinality({j \in 1..Len(calls) : calls[j].kind = calls[i].kind}) = 1
            /\ calls[i].kind = "retrieve" =>
                  \A j \in 1..Len(calls) : calls[j].kind # "generate"

C6_Witness ==
    /\ pc = "raised"
    /\ Len(calls) = 2
    /\ calls[1].ok
    /\ calls[2].kind = "retrieve"
    /\ ~calls[2].ok

(***************************************************************************)
(* Properties of store_embeddings (checked under SpecStore)                *)
(***************************************************************************)
\* C7: when the index exists remotely with a dimension other than the
\* embedding model's, the run ends with the dimension error at the index
\* check and no upsert call is issued, before or after.
C7_DimensionMismatchIsFatalBeforeUpsert ==
    (remote_index.exists /\ remote_index.dimension # model_dimension) =>
        /\ upserts = <<>>
        /\ st_pc \in {"start", "sample", "index", "raised"}
        /\ (st_pc = "raised" /\ embedding_dimension # 0) => error = "Dimension mismatch"

C7_Witness ==
    /\ st_pc = "raised"
    /\ error = "Dimension mismatch"
    /\ remote_index.exists
    /\ remote_index.dimension # embedding_dimension
    /\ upserts = <<>>

RECURSIVE Flatten(_)
Flatten(batches) ==
    IF batches = <<>> THEN <<>> ELSE Head(batches) \o Flatten(Tail(batches))

CeilDiv(n, d) == (n + d - 1) \div d

\* C8: a successful run over a catalog of N records issues ceil(N/100) upsert
\* calls of at most 100 entries each, and the batches, concatenated in call
\* order, are the N vector entries in catalog order.
C8_UpsertsAreTheCatalogInBatchesOf100 ==
    st_pc = "done" =>
        LET N == Len(input_file.docs)
        IN  /\ Len(upserts) = CeilDiv(N, 100)
            /\ \A b \in 1..Len(upserts) : Len(upserts[b]) <= 100
            /\ Flatten(upserts) =
                  [i \in 1..N |-> VectorEntry(input_file.docs[i], i - 1, model_dimension)]

C8_Witness ==
    /\ st_pc = "done"
    /\ Len(input_file.docs) = 201
    /\ Len(upserts) = 3
    /\ Len(upserts[1]) = 100
    /\ Len(upserts[3]) = 1

(***************************************************************************)
(* Properties of build_text_for_embedding (checked under SpecText)         *)
(***************************************************************************)
\* the j-th line of t, for the set nl of the positions of its newlines
LineOf(t, nl, j) ==
    LET starts == {0} \cup nl
        ends == nl \cup {Len(t) + 1}
        a == CHOOSE x \in starts : Cardinality({y \in starts : y < x}) = j - 1
        b == CHOOSE x \in ends : Cardinality({y \in ends : y < x}) = j - 1
    IN  SubSeq(t, a + 1, b - 1)

\* t.split("\n")
Lines(t) ==
    LET nl == {i \in 1..Len(t) : t[i] = "\n"}
    IN  [j \in 1..(Cardinality(nl) + 1) |-> LineOf(t, nl, j)]

\* the allow-listed fields of d that have a non-empty value, in allow-list order
PresentFields(d) ==
    SelectSeq(fields_in_order, LAMBDA k : k \in DOMAIN d /\ d[k] # <<>>)

\* one line "<Title-cased field name>: <value>" per present field, joined and
\* stripped; the id (or nothing) of a record with no present field
ExpectedText(d) ==
    LET present == PresentFields(d)
        TitleOf(k) == [ product_name |-> <<"P","r","o","d","u","c","t"," ","N","a","m","e">>,
                        brand_name |-> <<"B","r","a","n","d"," ","N","a","m","e">>,
                        therapeutic_class |-> <<"T","h","e","r","a","p","e","u","t","i","c"," ","C","l","a","s","s">>,
                        strength |-> <<"S","t","r","e","n","g","t","h">>,
                        dosage_form |-> <<"D","o","s","a","g","e"," ","F","o","r","m">>,
                        pack_size |-> <<"P","a","c","k"," ","S","i","z","e">>,
                        composition |-> <<"C","o","m","p","o","s","i","t","i","o","n">>,
                        indication_summary |-> <<"I","n","d","i","c","a","t","i","o","n"," ","S","u","m","m","a","r","y">>,
                        extracted_text |-> <<"E","x","t","r","a","c","t","e","d"," ","T","e","x","t">> ][k]
    IN  IF present = <<>>
        THEN Strip(IF "id" \in DOMAIN d THEN d.id ELSE <<>>)
        ELSE Strip(Join([i \in 1..Len(present) |->
                           TitleOf(present[i]) \o <<":", " ">> \o d[present[i]]], <<"\n">>))

\* C9, as stated: the text holds a line for exactly the present allow-listed
\* fields, in allow-list order, and is at most 6000 characters long.
C9_TextHoldsEveryPresentField ==
    (text_blob # None /\ PresentFields(doc) # <<>>) =>
        /\ Lines(text_blob[1]) = Lines(ExpectedText(doc))
        /\ Len(text_blob[1]) <= 6000

\* C9, amended: the text is the first 6000 characters of the lines of the
\* present (non-empty) allow-listed fields, in allow-list order (of the id
\* when there is none): never longer than 6000 characters, every line whole
\* when they fit in 6000 characters.
C9_TextIsFirst6000OfPresentFields ==
    text_blob # None =>
        LET t == text_blob[1]
            full == ExpectedText(doc)
        IN  /\ Len(t) <= 6000
            /\ Len(full) <= 6000 => t = full /\ Lines(t) = Lines(full)
            /\ Len(full) > 6000 => t = SubSeq(full, 1, 6000)

C9_Witness ==
    /\ text_blob # None
    /\ Len(PresentFields(doc)) = 2
    /\ Len(ExpectedText(doc)) > 6000
    /\ Len(text_blob[1]) = 6000
    /\ Len(Lines(text_blob[1])) = 1

(***************************************************************************)
(* Properties of the greeting gate (checked under SpecGate)                *)
(***************************************************************************)
\* C10: is_greeting(text) is true exactly when the case-folded,
\* punctuation-stripped message contains a greeting word or phrase, or the
\* message has at most 3 words and one of them is hi, hello or hey.
C10_IsGreetingMatchesStrippedText ==
    classified.greeting # None =>
        LET stripped == text_clean(Strip(Lower(text)))
            words == Split(stripped)
        IN  classified.greeting[1] =
                \/ \E g \in Range(greetings) : Contains(stripped, g)
                \/ /\ Len(words) <= 3
                   /\ \E i \in 1..Len(words) : words[i] \in {<<"h","i">>, <<"h","e","l","l","o">>, <<"h","e","y">>}

\* the number of whitespace-separated words of t: a word starts at each
\* non-whitespace character that begins t or follows whitespace
WordCount(t) ==
    Cardinality({i \in 1..Len(t) : ~IsSpace(t[i]) /\ (i = 1 \/ IsSpace(t[i - 1]))})

HasQuestionMarkOrKeyword(t) ==
    \/ \E i \in 1..Len(t) : t[i] = "?"
    \/ \E qw \in Range(question_words) : Contains(Lower(t), qw)

\* C11: has_question(text) is false for a message of at most 2 words and true
\* for a message of more than 2 words, whether or not the message holds a "?"
\* or a question keyword.
C11_HasQuestionIsDecidedByWordCount ==
    classified.question # None =>
        classified.question[1] = (WordCount(text) > 2)

C11_Witness ==
    /\ classified.question = Some(TRUE)
    /\ WordCount(text) = 3
    /\ ~HasQuestionMarkOrKeyword(text)

(***************************************************************************)
(* Configuration errors of store_embeddings (checked under SpecStore)      *)
(***************************************************************************)
ConfigurationErrors ==
    {"PINECONE_API_KEY not found", "Input JSON not found", "Dimension mismatch"}

\* C13, as stated: when a configuration error (missing API key, missing
\* catalog file, dimension mismatch) is raised, the run has issued no
\* create-index call and no upsert call.
C13_ConfigurationErrorsPrecedeEveryWrite ==
    (st_pc = "raised" /\ error \in ConfigurationErrors) =>
        /\ created = <<>>
        /\ upserts = <<>>

\* C13, amended: a configuration error is raised before any upsert call; the
\* missing API key and the dimension mismatch are raised before any
\* create-index call too, while the missing catalog file is raised after the
\* one create-index call of a run that found no index.
C13_ConfigurationErrorsPrecedeEveryUpsert ==
    (st_pc = "raised" /\ error \in ConfigurationErrors) =>
        /\ upserts = <<>>
        /\ error \in {"PINECONE_API_KEY not found", "Dimension mismatch"} => created = <<>>
        /\ error = "Input JSON not found" =>
              /\ ~input_file.exists
              /\ created \in {<<>>, << embedding_dimension >>}
              /\ remote_index = [exists |-> TRUE, dimension |-> embedding_dimension]

C13_Witness ==
    /\ st_pc = "raised"
    /\ error = "Input JSON not found"
    /\ created = << model_dimension >>
    /\ upserts = <<>>


(***************************************************************************)
(* Properties of determine_retrieval_query (checked under SpecPlan)        *)
(***************************************************************************)
\* s without its leading and trailing characters that Keep rejects
Trimmed(s, Keep(_)) ==
    LET kept == {i \in 1..Len(s) : Keep(s[i])}
    IN  IF kept = {} THEN <<>>
        ELSE SubSeq(s, CHOOSE i \in kept : \A j \in kept : i <= j,
                       CHOOSE i \in kept : \A j \in kept : j <= i)

NotSpace(c) == c \notin {" ", "\t", "\n", "\r"}

NotDoubleQuote(c) == c # "\""

NotSingleQuote(c) == c # "'"

\* the text after the last colon of s, trimmed; s when it holds no colon
TailAfterLastColon(s) ==
    IF \A i \in 1..Len(s) : s[i] # ":" THEN s
    ELSE LET last == CHOOSE i \in 1..Len(s) :
                        s[i] = ":" /\ \A j \in (i + 1)..Len(s) : s[j] # ":"
         IN  Trimmed(SubSeq(s, last + 1, Len(s)), NotSpace)

\* the post-processing in its stated order: whitespace and quotes off the
\* ends, then the tail after the last colon, then the fallback
PostProcessed(content, original) ==
    LET bare == Trimmed(Trimmed(Trimmed(Trimmed(content, NotSpace),
                                        NotDoubleQuote),
                                NotSingleQuote),
                        NotSpace)
        tail == TailAfterLastColon(bare)
    IN  IF Len(tail) < 2 THEN original ELSE tail

PlanSucceeded == planned # None /\ ~plan_outcome.throws

\* C12: when the planning call succeeds, the returned query is the model's
\* text with surrounding whitespace and surrounding quote characters (double,
\* then single) stripped, then cut to the trimmed text after its last colon
\* when it holds one, and replaced by the user's message when fewer than 2
\* characters remain; "The query is: CIPROTAB" gives CIPROTAB, a quoted
\* "atorvastatin" gives atorvastatin, and "x" gives the user's message.
C12_PlannedQueryIsPostProcessedInOrder ==
    PlanSucceeded =>
        /\ planned[1] = PostProcessed(plan_outcome.content, plan_user_query)
        /\ plan_outcome.content = <<"T","h","e"," ","q","u","e","r","y"," ","i","s",":"," ","C","I","P","R","O","T","A","B">> => planned[1] = CIPROTAB
        /\ plan_outcome.content = <<"\"","a","t","o","r","v","a","s","t","a","t","i","n","\"">> => planned[1] = <<"a","t","o","r","v","a","s","t","a","t","i","n">>
        /\ plan_outcome.content = <<"x">> => planned[1] = plan_user_query

C12_Witness ==
    /\ PlanSucceeded
    /\ plan_outcome.content = <<"T","h","e"," ","q","u","e","r","y"," ","i","s",":"," ","C","I","P","R","O","T","A","B">>
    /\ planned = Some(CIPROTAB)
    /\ planned[1] # plan_user_query

QuoteCharacters == {"\"", "'"}

\* C14, as stated: whenever the planning call succeeds and the returned
\* string is not the user's message, it has at least 2 characters, holds no
\* colon, and neither begins nor ends with a quote character or whitespace.
C14_PlannedQueryHasNoQuoteOrSpaceAtItsEnds ==
    (PlanSucceeded /\ planned[1] # plan_user_query) =>
        LET q == planned[1]
        IN  /\ Len(q) >= 2
            /\ \A i \in 1..Len(q) : q[i] # ":"
            /\ q[1] \notin QuoteCharacters /\ q[Len(q)] \notin QuoteCharacters
            /\ NotSpace(q[1]) /\ NotSpace(q[Len(q)])

\* C14, amended: whenever the planning call succeeds and the returned string
\* is not the user's message, it has at least 2 characters, holds no colon,
\* and neither begins nor ends with whitespace; it can begin or end with a
\* quote character.
C14_PlannedQueryHasNoColonOrSpaceAtItsEnds ==
    (PlanSucceeded /\ planned[1] # plan_user_query) =>
        LET q == planned[1]
        IN  /\ Len(q) >= 2
            /\ \A i \in 1..Len(q) : q[i] # ":"
            /\ NotSpace(q[1]) /\ NotSpace(q[Len(q)])

C14_Witness ==
    /\ PlanSucceeded
    /\ planned[1] # plan_user_query
    /\ plan_outcome.content = <<"'","\"","C","A","R","D","I","A","C","\"","'">>
    /\ planned[1] = <<"\"","C","A","R","D","I","A","C","\"">>

=============================================================================
